---- MODULE Spec2Model ----
(***************************************************************************)
(* Bonding-curve launchpad (programs/launchpad): the swap quote            *)
(* (models/bound.rs), the fee engine (models/fees.rs) and the two swap     *)
(* handlers (endpoints/swap_x.rs, endpoints/swap_y.rs).                    *)
(*                                                                         *)
(* TLC's integers are 32 bits wide, so the machine words are modelled at   *)
(* a reduced width: U64_MAX stands for u64::MAX, and the 128- and 256-bit  *)
(* types are the square and the fourth power of the 64-bit range, as in    *)
(* the program.  All arithmetic keeps the program's shape: checked_*       *)
(* operations give None on overflow, the plain operators + - * either      *)
(* abort (overflow checks compiled in) or wrap (compiled out), and `as`    *)
(* casts truncate.  Which of the two builds is deployed is not fixed by    *)
(* the sources, so it is a choice made once in Init (overflow_checks).     *)
(***************************************************************************)
EXTENDS Integers, Sequences, FiniteSets, TLC

VARIABLES
    meme_reserve,      \* pool.meme_reserve.tokens
    quote_reserve,     \* pool.quote_reserve.tokens
    admin_fees_meme,   \* pool.admin_fees_meme
    admin_fees_quote,  \* pool.admin_fees_quote
    locked,            \* pool.locked
    fees,              \* pool.fees   (never written by a swap)
    config,            \* pool.config (never written by a swap)
    meme_vault,        \* token balance of the pool's meme vault
    quote_vault,       \* token balance of the pool's quote vault
    points_acc,        \* token balance of the points account
    points_epoch,      \* the PointsEpoch account
    overflow_checks,   \* TRUE: + - * abort on overflow; FALSE: they wrap
    last,              \* the last instruction processed and its outcome
    fee_call,          \* a call of get_fee_amount: its arguments and result
    quote_call,        \* calls of swap_amounts on one pool: arguments and results
    math_call,         \* a call of a curve function: its arguments and result
    staking_accs,      \* the accounts of send_airdrop_funds
    airdrop_call       \* the last send_airdrop_funds and its outcome

vars == <<meme_reserve, quote_reserve, admin_fees_meme, admin_fees_quote,
          locked, fees, config, meme_vault, quote_vault, points_acc,
          points_epoch, overflow_checks, last, fee_call, quote_call, math_call,
          staking_accs, airdrop_call>>

(***************************************************************************)
(* Word widths.                                                            *)
(***************************************************************************)
U64_MAX == 127
U128_MAX == (U64_MAX + 1) * (U64_MAX + 1) - 1
U256_MAX == (U128_MAX + 1) * (U128_MAX + 1) - 1

(***************************************************************************)
(* Option<T>, with the abort of the whole instruction as a third outcome.  *)
(***************************************************************************)
Some(x) == [st |-> "Some", v |-> x]
None == [st |-> "None", v |-> 0]
Panic == [st |-> "Panic", v |-> 0]

\* let name = e; ... : the value e, under a name, in what follows
Bind(e, F(_)) == F(e)

\* The plain operators + - * of an unsigned type with maximum max, applied
\* to the mathematical result raw.
Plain(raw, max) ==
    IF 0 <= raw /\ raw <= max THEN Some(raw)
    ELSE IF overflow_checks THEN Panic
    ELSE Some(raw % (max + 1))

\* a * b of an unsigned type with maximum max (no product above max is
\* ever formed: the wrapped value is computed factor by factor).
PlainMul(a, b, max) ==
    IF a = 0 \/ b <= max \div a THEN Some(a * b)
    ELSE IF overflow_checks THEN Panic
    ELSE Some(((a % (max + 1)) * (b % (max + 1))) % (max + 1))

\* x as u64
AsU64(x) == x % (U64_MAX + 1)

checked_add(a, b, max) == IF a + b <= max THEN Some(a + b) ELSE None
checked_sub(a, b) == IF a >= b THEN Some(a - b) ELSE None
checked_mul(a, b, max) == IF a = 0 \/ b <= max \div a THEN Some(a * b) ELSE None
checked_div(a, b) == IF b = 0 THEN None ELSE Some(a \div b)
checked_pow2(a, max) == checked_mul(a, a, max)

\* The same operations on Option receivers (math::utils).
opt_add(oa, ob, max) ==
    IF oa.st # "Some" THEN oa
    ELSE IF ob.st # "Some" THEN ob
    ELSE checked_add(oa.v, ob.v, max)
opt_sub(oa, ob) ==
    IF oa.st # "Some" THEN oa
    ELSE IF ob.st # "Some" THEN ob
    ELSE checked_sub(oa.v, ob.v)
opt_mul(oa, b, max) == IF oa.st # "Some" THEN oa ELSE checked_mul(oa.v, b, max)
opt_div(oa, b) == IF oa.st # "Some" THEN oa ELSE checked_div(oa.v, b)

RECURSIVE SqrtBetween(_, _, _)
\* the largest r in lo..hi with r * r <= n, given lo * lo <= n
SqrtBetween(n, lo, hi) ==
    IF lo >= hi THEN lo
    ELSE LET mid == (lo + hi + 1) \div 2
         IN IF mid <= n \div mid THEN SqrtBetween(n, mid, hi)
            ELSE SqrtBetween(n, lo, mid - 1)

\* U256::integer_sqrt: floor of the square root
integer_sqrt(n) == SqrtBetween(n, 0, U128_MAX + 1)

opt_sqrt(oa) == IF oa.st # "Some" THEN oa ELSE Some(integer_sqrt(oa.v))

(***************************************************************************)
(* models/fees.rs                                                          *)
(***************************************************************************)
MEME_FEE == 0
FEE == 10000000
FEE_PRECISION == 1000000000

RECURSIVE MulDivRem(_, _, _)
\* <<floor(x * num / denom), (x * num) mod denom>>, exact for any x: the
\* wide product is never formed, it is accumulated bit by bit of x as a
\* quotient and a remainder.
MulDivRem(x, num, denom) ==
    IF x = 0 THEN <<0, 0>>
    ELSE LET h == MulDivRem(x \div 2, num, denom)
             q2 == 2 * h[1] + ((2 * h[2]) \div denom)
             r2 == (2 * h[2]) % denom
             r == r2 + (num % denom)
         IN IF x % 2 = 0 THEN <<q2, r2>>
            ELSE <<q2 + (num \div denom) + (r \div denom), r % denom>>

\* libraries::MulDiv for u64: the quotient of the wide product, rounded
\* down; None when it does not fit u64 (or denom = 0)
mul_div_floor(x, num, denom) ==
    IF denom = 0 THEN None
    ELSE LET p == MulDivRem(x, num, denom)
         IN IF p[1] > U64_MAX THEN None ELSE Some(p[1])

\* libraries::MulDiv for u64: the same, rounded up
mul_div_ceil(x, num, denom) ==
    IF denom = 0 THEN None
    ELSE LET p == MulDivRem(x, num, denom)
             c == p[1] + (IF p[2] > 0 THEN 1 ELSE 0)
         IN IF c > U64_MAX THEN None ELSE Some(c)

\* (variant of get_fee_amount: the quotient is rounded down)
get_fee_amount_floor(x, percent) ==
    LET r == mul_div_floor(x, percent, FEE_PRECISION)
    IN IF r.st = "Some" THEN r ELSE Panic

\* (variant of get_fee_amount: the rate is taken out of FEE, not FEE_PRECISION)
get_fee_amount_per_fee(x, percent) ==
    LET r == mul_div_ceil(x, percent, FEE)
    IN IF r.st = "Some" THEN r ELSE Panic

\* Ok(x.mul_div_ceil(percent, FEE_PRECISION).unwrap())
get_fee_amount(x, percent) ==
    LET r == mul_div_ceil(x, percent, FEE_PRECISION)
    IN IF r.st = "Some" THEN r ELSE Panic

get_fee_meme_amount(f, amount) == get_fee_amount(amount, f.fee_meme_percent)

\* (variant of get_fee_quote_amount: the rate of the other asset is applied)
get_fee_quote_amount_meme_rate(f, amount) == get_fee_amount(amount, f.fee_meme_percent)

get_fee_quote_amount(f, amount) == get_fee_amount(amount, f.fee_quote_percent)

(***************************************************************************)
(* models/bound.rs: the curve solver                                       *)
(***************************************************************************)
\* consts::DECIMALS_S, the scale of the quote token, at the model's width
DECIMALS_S == 10

delta_m1_positive_strategy(alpha_abs, beta, alpha_decimals, beta_decimals, s_a, s_b) ==
    LET d == checked_sub(s_b, s_a)
        left_num == opt_mul(d, beta, U128_MAX)
        left_denom == checked_mul(beta_decimals, DECIMALS_S, U128_MAX)
        left == IF left_num.st # "Some" THEN left_num
                ELSE IF left_denom.st # "Some" THEN left_denom
                ELSE checked_div(left_num.v, left_denom.v)
        s_b_squared == checked_pow2(s_b, U128_MAX)
        s_a_squared == checked_pow2(s_a, U128_MAX)
        power_diff == opt_sub(s_b_squared, s_a_squared)
        decimals_s_squared == checked_pow2(DECIMALS_S, U128_MAX)
        right1 == opt_div(opt_mul(power_diff, alpha_abs, U128_MAX),
                          decimals_s_squared.v)
        two_ad == PlainMul(2, alpha_decimals, U128_MAX)
        right == IF two_ad.st # "Some" THEN two_ad
                 ELSE checked_div(right1.v, two_ad.v)
    IN IF left.st # "Some" THEN left
       ELSE IF power_diff.st # "Some" THEN power_diff
       ELSE IF decimals_s_squared.st # "Some" THEN decimals_s_squared
       ELSE IF right1.st # "Some" THEN right1
       ELSE IF right.st # "Some" THEN right
       ELSE checked_add(left.v, right.v, U128_MAX)

delta_m2_positive_strategy(alpha_abs, beta, alpha_decimals, beta_decimals, s_a, s_b) ==
    LET beta2 == PlainMul(beta, 2, U128_MAX)
        d == Plain(s_b - s_a, U128_MAX)
        left == opt_mul(opt_mul(opt_mul(beta2, DECIMALS_S, U128_MAX),
                                alpha_decimals, U128_MAX),
                        d.v, U128_MAX)
        s_b_squared == checked_pow2(s_b, U128_MAX)
        s_a_squared == checked_pow2(s_a, U128_MAX)
        power_diff == opt_sub(s_b_squared, s_a_squared)
        right == opt_mul(checked_mul(alpha_abs, beta_decimals, U128_MAX),
                         power_diff.v, U128_MAX)
        two_ad == PlainMul(2, alpha_decimals, U128_MAX)
        decimals_s_squared == checked_pow2(DECIMALS_S, U128_MAX)
        denom == opt_mul(opt_mul(two_ad, beta_decimals, U128_MAX),
                         decimals_s_squared.v, U128_MAX)
        sum == checked_add(left.v, right.v, U128_MAX)
    IN IF beta2.st # "Some" THEN beta2
       ELSE IF d.st # "Some" THEN d
       ELSE IF left.st # "Some" THEN left
       ELSE IF power_diff.st # "Some" THEN power_diff
       ELSE IF right.st # "Some" THEN right
       ELSE IF two_ad.st # "Some" THEN two_ad
       ELSE IF decimals_s_squared.st # "Some" THEN decimals_s_squared
       ELSE IF denom.st # "Some" THEN denom
       ELSE IF sum.st # "Some" THEN sum
       ELSE checked_div(sum.v, denom.v)

\* Result<u64> of the solver: Ok(value), Err(MathOverflow) or an abort
SolverResult(o) ==
    IF o.st = "Some" THEN [st |-> "Ok", v |-> AsU64(o.v)]
    ELSE IF o.st = "None" THEN [st |-> "MathOverflow", v |-> 0]
    ELSE [st |-> "Panic", v |-> 0]

compute_delta_m(p, s_a, s_b) ==
    LET m1 == delta_m1_positive_strategy(p.alpha_abs, p.beta, p.decimals.alpha,
                                         p.decimals.beta, s_a, s_b)
    IN IF m1.st # "None" THEN SolverResult(m1)
       ELSE SolverResult(delta_m2_positive_strategy(p.alpha_abs, p.beta,
                             p.decimals.alpha, p.decimals.beta, s_a, s_b))

RECURSIVE compute_a_positive(_, _, _, _, _)
compute_a_positive(u, alpha_decimals, w, v, scale) ==
    LET left == opt_mul(opt_mul(checked_div(u, scale), u, U256_MAX),
                        alpha_decimals, U256_MAX)
        right == opt_mul(opt_mul(checked_div(v, scale), v, U256_MAX), w, U256_MAX)
        result == opt_mul(opt_sqrt(opt_add(left, right, U256_MAX)),
                          integer_sqrt(scale), U256_MAX)
        next == checked_mul(scale, 100, U256_MAX)
    IN IF result.st = "Some" THEN result
       ELSE IF next.st # "Some" THEN Panic
       ELSE compute_a_positive(u, alpha_decimals, w, v, next.v)

RECURSIVE Product(_, _)
\* the checked product of a sequence of U256 values
Product(xs, max) ==
    IF xs = <<>> THEN Some(1)
    ELSE opt_mul(Product(Tail(xs), max), Head(xs), max)

\* math::utils::multiply_divide: the product of the numerators divided by
\* the product of the denominators, rounded down
multiply_divide(nums, denoms) ==
    LET n == Product(nums, U256_MAX)
        d == Product(denoms, U256_MAX)
    IN IF n.st # "Some" THEN n
       ELSE IF d.st # "Some" THEN d
       ELSE checked_div(n.v, d.v)

delta_s_positive_strategy(alpha_abs, beta, alpha_decimals, beta_decimals, s_b, delta_m) ==
    LET decimals_s == DECIMALS_S
        u == opt_add(opt_mul(opt_mul(checked_mul(2, alpha_abs, U256_MAX),
                                     s_b, U256_MAX), beta_decimals, U256_MAX),
                     opt_mul(opt_mul(checked_mul(2, beta, U256_MAX),
                                     alpha_decimals, U256_MAX), decimals_s, U256_MAX),
                     U256_MAX)
        v == opt_mul(checked_mul(alpha_decimals, beta_decimals, U256_MAX),
                     decimals_s, U256_MAX)
        w == opt_mul(checked_mul(8, delta_m, U256_MAX), alpha_abs, U256_MAX)
        a == compute_a_positive(u.v, alpha_decimals, w.v, v.v, 1)
        b == opt_sqrt(opt_mul(checked_pow2(v.v, U256_MAX), alpha_decimals, U256_MAX))
        denom_ == <<2, alpha_abs, b.v, v.v>>
        left == multiply_divide(<<decimals_s, alpha_decimals, a.v, v.v>>, denom_)
        right == multiply_divide(<<decimals_s, alpha_decimals, u.v, b.v>>, denom_)
        diff == opt_sub(left, right)
    IN IF u.st # "Some" THEN u
       ELSE IF v.st # "Some" THEN v
       ELSE IF w.st # "Some" THEN w
       ELSE IF a.st # "Some" THEN a
       ELSE IF b.st # "Some" THEN b
       ELSE IF diff.st # "Some" THEN diff
       ELSE IF diff.v > U128_MAX THEN Panic
       ELSE diff

compute_delta_s(p, s_b, delta_m) ==
    SolverResult(delta_s_positive_strategy(p.alpha_abs, p.beta, p.decimals.alpha,
                                           p.decimals.beta, s_b, delta_m))

(***************************************************************************)
(* models/bound.rs: the parameters of the curve                            *)
(***************************************************************************)
\* Result<T> of the parameter functions: Ok with a value, an Err, or an abort
Ok(x) == [st |-> "Ok", v |-> x]
Err(e) == [st |-> e, v |-> <<>>]
Abort == [st |-> "Panic", v |-> <<>>]

\* omega_m.checked_mul(price_factor_num as u128).checked_div(price_factor_denom as u128)
price_factor_of(omega_m, price_factor_num, price_factor_denom) ==
    opt_div(checked_mul(omega_m, price_factor_num, U128_MAX), price_factor_denom)

\* if pfo <= gamma_m { return Err(BondingCurveMustBePositivelySloped) }
not_positively_sloped(pfo, gamma_m) == pfo <= gamma_m

check_slope(gamma_m, omega_m, price_factor_num, price_factor_denom) ==
    Bind(price_factor_of(omega_m, price_factor_num, price_factor_denom), LAMBDA pfo :
        IF pfo.st # "Some" THEN Abort
        ELSE IF not_positively_sloped(pfo.v, gamma_m)
        THEN Err("BondingCurveMustBePositivelySloped")
        ELSE Ok(<<>>))

RECURSIVE compute_scale(_)
\* the number of decimal digits of num_ (1 for 0)
compute_scale(num_) == IF num_ < 10 THEN 1 ELSE 1 + compute_scale(num_ \div 10)

\* The table of the source keeps 13 decimal digits of alpha in a u128 of 38
\* (below scale 5 an error, 10^(13 - scale) up to scale 12, 1 above); at the
\* model's width a u128 has 4 digits, and the table keeps 3 of them.
compute_decimals(scale) ==
    IF scale <= 1 THEN Err("EScaleTooLow")
    ELSE IF scale = 2 THEN Ok(10)
    ELSE Ok(1)

\* U256 * U256 and U256::as_u128 of the uint crate abort on overflow in
\* every build
U256Mul(a, b) == IF checked_mul(a, b, U256_MAX).st = "Some" THEN Some(a * b) ELSE Panic
as_u128(x) == IF x <= U128_MAX THEN Some(x) ELSE Panic

compute_alpha_abs(gamma_s, gamma_s_denom, gamma_m, omega_m, price_factor_num, price_factor_denom) ==
    Bind(check_slope(gamma_m, omega_m, price_factor_num, price_factor_denom), LAMBDA slope :
    Bind(price_factor_of(omega_m, price_factor_num, price_factor_denom), LAMBDA left :
    Bind(Plain(left.v - gamma_m, U128_MAX), LAMBDA excess :
    Bind(PlainMul(2, excess.v, U128_MAX), LAMBDA twice :
    Bind(PlainMul(gamma_s_denom, gamma_s_denom, U128_MAX), LAMBDA denom_squared :
    Bind(U256Mul(twice.v, denom_squared.v), LAMBDA num :
    Bind(PlainMul(gamma_s, gamma_s, U128_MAX), LAMBDA denom :
    Bind(compute_decimals(compute_scale(num.v) - compute_scale(denom.v)), LAMBDA alpha_decimals :
    Bind(U256Mul(num.v, IF alpha_decimals.st = "Ok" THEN alpha_decimals.v ELSE 0), LAMBDA scaled :
        IF slope.st # "Ok" THEN slope
        ELSE IF left.st # "Some" \/ excess.st # "Some" \/ twice.st # "Some"
                \/ denom_squared.st # "Some" \/ num.st # "Some" \/ denom.st # "Some"
        THEN Abort
        ELSE IF num.v <= denom.v THEN Err("EGammaSAboveRelativeLimit")
        ELSE IF as_u128(num.v).st # "Some" THEN Abort
        ELSE IF alpha_decimals.st # "Ok" THEN alpha_decimals
        ELSE IF scaled.st # "Some" \/ denom.v = 0 THEN Abort
        ELSE IF as_u128(scaled.v \div denom.v).st # "Some" THEN Abort
        ELSE Ok(<<scaled.v \div denom.v, alpha_decimals.v>>))))))))))

\* if 2 * gamma_m <= omp { return Err(BondingCurveInterceptMustBePositive) }
intercept_not_positive(right, omp) == right <= omp

\* if 2 * gamma_m >= omp { return Err(BondingCurveInterceptMustBeNegative) }
intercept_not_negative(right, omp) == right >= omp

\* check_intercept of programs/launchpad (the curve with a positive intercept)
check_intercept(gamma_m, omega_m, price_factor_num, price_factor_denom) ==
    Bind(price_factor_of(omega_m, price_factor_num, price_factor_denom), LAMBDA omp :
    Bind(PlainMul(2, gamma_m, U128_MAX), LAMBDA right :
        IF omp.st # "Some" \/ right.st # "Some" THEN Abort
        ELSE IF intercept_not_positive(right.v, omp.v)
        THEN Err("BondingCurveInterceptMustBePositive")
        ELSE Ok(<<>>)))

\* check_intercept of the second copy of models/bound.rs (the curve with a
\* negative intercept)
check_intercept_negative(gamma_m, omega_m, price_factor_num, price_factor_denom) ==
    Bind(price_factor_of(omega_m, price_factor_num, price_factor_denom), LAMBDA omp :
    Bind(PlainMul(2, gamma_m, U128_MAX), LAMBDA right :
        IF omp.st # "Some" \/ right.st # "Some" THEN Abort
        ELSE IF intercept_not_negative(right.v, omp.v)
        THEN Err("BondingCurveInterceptMustBeNegative")
        ELSE Ok(<<>>)))

(***************************************************************************)
(* models/bound.rs: the swap quote                                         *)
(***************************************************************************)
Min(a, b) == IF a <= b THEN a ELSE b

SwapAmount(ai, ao, fi, fo) ==
    [amount_in |-> ai, amount_out |-> ao, admin_fee_in |-> fi, admin_fee_out |-> fo]

NoSwap == SwapAmount(0, 0, 0, 0)

\* the outcome of a quote: st is "Ok", the error of the Err returned, or
\* "Panic"; solver tells whether the curve solver was invoked
Quote(st, swap, solver) == [st |-> st, swap |-> swap, solver |-> solver]

\* (self.meme_reserve.tokens, self.quote_reserve.tokens)
balances(pool) == <<pool.meme_reserve, pool.quote_reserve>>

\* (variant of is_max: an input that exactly fills the capacity goes to the solver)
is_max_strict(net_in, max_delta) == net_in > max_delta

\* delta - admin_fee_in >= max_delta: the input fills the remaining capacity
is_max(net_in, max_delta) == net_in >= max_delta

\* (variant of below_minimum: an output equal to the minimum is refused)
not_above_minimum(net_delta, min_delta) == net_delta <= min_delta

\* if net_delta < min_delta { return Err(SlippageExceeded) }
below_minimum(net_delta, min_delta) == net_delta < min_delta

\* (variant of sell_fee: the fee of a sale is taken once)
sell_fee_once(fee) == fee

\* get_fee_..._amount(..).unwrap() * 2: the fee of a sale is taken twice
sell_fee(fee) == IF fee.st # "Some" THEN fee ELSE PlainMul(fee.v, 2, U64_MAX)

buy_meme_swap_amounts(pool, delta_s, min_delta_m) ==
    LET m_t0 == balances(pool)[1]
        s_t0 == balances(pool)[2]
        p == pool.config
    IN
    Bind(Plain(p.gamma_s - s_t0, U64_MAX), LAMBDA max_delta_s :
    Bind(get_fee_quote_amount(pool.fees, delta_s), LAMBDA admin_fee_in :
    Bind(Plain(delta_s - admin_fee_in.v, U64_MAX), LAMBDA net_in :
    Bind(is_max(net_in.v, max_delta_s.v), LAMBDA saturated :
    Bind(Min(net_in.v, max_delta_s.v), LAMBDA net_delta_s :
    Bind(Plain(s_t0 + net_delta_s, U64_MAX), LAMBDA s_b :
    Bind(IF saturated THEN [st |-> "Ok", v |-> m_t0]
         ELSE IF s_b.st # "Some" THEN [st |-> "Panic", v |-> 0]
         ELSE compute_delta_m(p, s_t0, s_b.v), LAMBDA delta_m :
    Bind(get_fee_meme_amount(pool.fees, delta_m.v), LAMBDA admin_fee_out :
    Bind(Plain(delta_m.v - admin_fee_out.v, U64_MAX), LAMBDA net_delta_m :
        IF max_delta_s.st # "Some" \/ admin_fee_in.st # "Some" \/ net_in.st # "Some"
        THEN Quote("Panic", NoSwap, FALSE)
        ELSE IF delta_m.st # "Ok" THEN Quote(delta_m.st, NoSwap, ~saturated)
        ELSE IF admin_fee_out.st # "Some" \/ net_delta_m.st # "Some"
        THEN Quote("Panic", NoSwap, ~saturated)
        ELSE IF below_minimum(net_delta_m.v, min_delta_m)
        THEN Quote("SlippageExceeded", NoSwap, ~saturated)
        ELSE Quote("Ok", SwapAmount(net_delta_s, net_delta_m.v, admin_fee_in.v,
                                    admin_fee_out.v), ~saturated))))))))))

sell_meme_swap_amounts(pool, delta_m, min_delta_s) ==
    LET m_b == balances(pool)[1]
        s_b == balances(pool)[2]
        p == pool.config
    IN
    Bind(Plain(p.gamma_m - m_b, U64_MAX), LAMBDA max_delta_m :
    Bind(sell_fee(get_fee_meme_amount(pool.fees, delta_m)), LAMBDA admin_fee_in :
    Bind(Plain(delta_m - admin_fee_in.v, U64_MAX), LAMBDA net_in :
    Bind(is_max(net_in.v, max_delta_m.v), LAMBDA saturated :
    Bind(Min(net_in.v, max_delta_m.v), LAMBDA net_delta_m :
    Bind(IF saturated THEN [st |-> "Ok", v |-> s_b]
         ELSE compute_delta_s(p, s_b, net_delta_m), LAMBDA delta_s :
    Bind(sell_fee(get_fee_quote_amount(pool.fees, delta_s.v)), LAMBDA admin_fee_out :
    Bind(Plain(delta_s.v - admin_fee_out.v, U64_MAX), LAMBDA net_delta_s :
        IF max_delta_m.st # "Some" \/ admin_fee_in.st # "Some" \/ net_in.st # "Some"
        THEN Quote("Panic", NoSwap, FALSE)
        ELSE IF delta_s.st # "Ok" THEN Quote(delta_s.st, NoSwap, ~saturated)
        ELSE IF admin_fee_out.st # "Some" \/ net_delta_s.st # "Some"
        THEN Quote("Panic", NoSwap, ~saturated)
        ELSE IF below_minimum(net_delta_s.v, min_delta_s)
        THEN Quote("SlippageExceeded", NoSwap, ~saturated)
        ELSE Quote("Ok", SwapAmount(net_delta_m, net_delta_s.v, admin_fee_in.v,
                                    admin_fee_out.v), ~saturated)))))))))

\* the Err of the quote is unwrapped: the instruction aborts with it
swap_amounts(pool, coin_in_amount, coin_out_min_value, buy_meme) ==
    IF buy_meme THEN buy_meme_swap_amounts(pool, coin_in_amount, coin_out_min_value)
    ELSE sell_meme_swap_amounts(pool, coin_in_amount, coin_out_min_value)

(***************************************************************************)
(* The accounts an instruction works on, as one record.                    *)
(***************************************************************************)
Accounts ==
    [meme_reserve |-> meme_reserve, quote_reserve |-> quote_reserve,
     admin_fees_meme |-> admin_fees_meme, admin_fees_quote |-> admin_fees_quote,
     locked |-> locked, fees |-> fees, config |-> config,
     meme_vault |-> meme_vault, quote_vault |-> quote_vault,
     points_acc |-> points_acc]

\* token::transfer(from -> to, amount): the token program refuses an amount
\* above the source balance or a destination balance above u64::MAX
transfer_ok(from, to, amount) == from >= amount /\ to + amount <= U64_MAX

\* the outcome of an instruction: its result, the quote it applied, the
\* points it paid, and the accounts after it (a failed instruction is rolled
\* back by the runtime: the accounts are the ones before it)
Outcome(result, q, points, post) ==
    [result |-> result, swap |-> q.swap, solver |-> q.solver,
     points |-> points, post |-> post]

NoQuote == Quote("Ok", NoSwap, FALSE)

\* (variant of is_zero_amount: the test is left out)
zero_amount_accepted(coin_in_amount) == FALSE

\* if coin_in_amount == 0 { return Err(NoZeroTokens) }
is_zero_amount(coin_in_amount) == coin_in_amount = 0

\* (variant of pool_is_locked: the test is left out)
pool_never_locked(a) == FALSE

\* if accs.pool.locked { return Err(PoolIsLocked) }
pool_is_locked(a) == a.locked

\* (variant of lock_if_depleted: the lock step is left out)
lock_never(pool_locked, tokens) == pool_locked

\* (variant of lock_if_depleted: the flag is recomputed from the reserve)
lock_follows_reserve(pool_locked, tokens) == tokens = 0

\* if pool.meme_reserve.tokens == 0 { pool.locked = true }
lock_if_depleted(pool_locked, tokens) == IF tokens = 0 THEN TRUE ELSE pool_locked

(***************************************************************************)
(* endpoints/swap_y.rs                                                     *)
(***************************************************************************)
\* (variant of get_swap_points: the quotient is rounded up)
get_swap_points_ceil(buy_amount, epoch) ==
    LET r == mul_div_ceil(buy_amount, epoch.points_per_sol_num,
                          epoch.points_per_sol_denom)
    IN IF r.st = "Some" THEN r ELSE Panic

get_swap_points(buy_amount, epoch) ==
    LET r == mul_div_floor(buy_amount, epoch.points_per_sol_num,
                           epoch.points_per_sol_denom)
    IN IF r.st = "Some" THEN r ELSE Panic

swap_y_handle(a, epoch, coin_in_amount, coin_x_min_value, user_sol, has_referrer) ==
    Bind(swap_amounts(a, coin_in_amount, coin_x_min_value, TRUE), LAMBDA q :
    Bind(q.swap, LAMBDA sw :
    Bind(Plain(sw.amount_in + sw.admin_fee_in, U64_MAX), LAMBDA pay :
    Bind(get_swap_points(pay.v, epoch), LAMBDA points :
    Bind(Min(a.points_acc, points.v), LAMBDA clamped_points :
    Bind(IF clamped_points > 0 /\ has_referrer
         THEN Min(a.points_acc, clamped_points) ELSE 0, LAMBDA paid :
    Bind(Plain(sw.amount_out + sw.admin_fee_out, U64_MAX), LAMBDA out :
        LET fees_quote == Plain(a.admin_fees_quote + sw.admin_fee_in, U64_MAX)
            fees_meme == Plain(a.admin_fees_meme + sw.admin_fee_out, U64_MAX)
            quote_tokens == Plain(a.quote_reserve + sw.amount_in, U64_MAX)
            meme_tokens == Plain(a.meme_reserve - out.v, U64_MAX)
            post == [a EXCEPT !.quote_vault = a.quote_vault + pay.v,
                              !.meme_vault = a.meme_vault - sw.amount_out,
                              !.points_acc = a.points_acc - paid,
                              !.admin_fees_quote = fees_quote.v,
                              !.admin_fees_meme = fees_meme.v,
                              !.quote_reserve = quote_tokens.v,
                              !.meme_reserve = meme_tokens.v,
                              !.locked = lock_if_depleted(a.locked, meme_tokens.v)]
        IN IF is_zero_amount(coin_in_amount) THEN Outcome("NoZeroTokens", NoQuote, 0, a)
           ELSE IF pool_is_locked(a) THEN Outcome("PoolIsLocked", NoQuote, 0, a)
           ELSE IF q.st # "Ok" THEN Outcome(q.st, q, 0, a)
           ELSE IF pay.st # "Some" THEN Outcome("Panic", q, 0, a)
           ELSE IF ~transfer_ok(user_sol, a.quote_vault, pay.v)
           THEN Outcome("TransferFailed", q, 0, a)
           ELSE IF ~transfer_ok(a.meme_vault, 0, sw.amount_out)
           THEN Outcome("TransferFailed", q, 0, a)
           ELSE IF points.st # "Some" THEN Outcome("Panic", q, 0, a)
           ELSE IF fees_quote.st # "Some" \/ fees_meme.st # "Some"
                   \/ quote_tokens.st # "Some" \/ out.st # "Some"
                   \/ meme_tokens.st # "Some"
           THEN Outcome("Panic", q, 0, a)
           ELSE Outcome("Ok", q, paid, post))))))))

(***************************************************************************)
(* endpoints/swap_x.rs                                                     *)
(***************************************************************************)
swap_x_handle(a, coin_in_amount, coin_y_min_value, user_meme) ==
    Bind(swap_amounts(a, coin_in_amount, coin_y_min_value, FALSE), LAMBDA q :
    Bind(q.swap, LAMBDA sw :
    Bind(Plain(sw.amount_in + sw.admin_fee_in, U64_MAX), LAMBDA pay :
    Bind(Plain(sw.amount_out + sw.admin_fee_out, U64_MAX), LAMBDA out :
        LET fees_meme == Plain(a.admin_fees_meme + sw.admin_fee_in, U64_MAX)
            fees_quote == Plain(a.admin_fees_quote + sw.admin_fee_out, U64_MAX)
            meme_tokens == Plain(a.meme_reserve + sw.amount_in, U64_MAX)
            quote_tokens == Plain(a.quote_reserve - out.v, U64_MAX)
            post == [a EXCEPT !.meme_vault = a.meme_vault + pay.v,
                              !.quote_vault = a.quote_vault - sw.amount_out,
                              !.admin_fees_meme = fees_meme.v,
                              !.admin_fees_quote = fees_quote.v,
                              !.meme_reserve = meme_tokens.v,
                              !.quote_reserve = quote_tokens.v]
        IN IF is_zero_amount(coin_in_amount) THEN Outcome("NoZeroTokens", NoQuote, 0, a)
           ELSE IF coin_in_amount > user_meme
           THEN Outcome("InsufficientBalance", NoQuote, 0, a)
           ELSE IF pool_is_locked(a) THEN Outcome("PoolIsLocked", NoQuote, 0, a)
           ELSE IF q.st # "Ok" THEN Outcome(q.st, q, 0, a)
           ELSE IF pay.st # "Some" THEN Outcome("Panic", q, 0, a)
           ELSE IF ~transfer_ok(user_meme, a.meme_vault, pay.v)
           THEN Outcome("TransferFailed", q, 0, a)
           ELSE IF fees_meme.st # "Some" \/ fees_quote.st # "Some"
                   \/ meme_tokens.st # "Some" \/ out.st # "Some"
                   \/ quote_tokens.st # "Some"
           THEN Outcome("Panic", q, 0, a)
           ELSE IF ~transfer_ok(a.quote_vault, 0, sw.amount_out)
           THEN Outcome("TransferFailed", q, 0, a)
           ELSE Outcome("Ok", q, 0, post)))))

(***************************************************************************)
(* The state machine: a pool and the swap instructions sent to it.         *)
(***************************************************************************)
MaxAdminFees == 2

\* the amounts and the minimum outputs an instruction is sent with
AmountsIn == {0, 1, 3, 6, 100, U64_MAX}
MinOuts == {0, 1, U64_MAX}

\* who sends it: the balance of the account paid from, and whether a
\* referrer account is passed along (swap_y only)
Callers ==
    { [balance |-> U64_MAX, referrer |-> TRUE],
      [balance |-> 1, referrer |-> FALSE] }

QUARTER == FEE_PRECISION \div 4

\* the rates the program is built with, and a stress configuration
ProgramFees == [fee_meme_percent |-> MEME_FEE, fee_quote_percent |-> FEE]
QuarterFees == [fee_meme_percent |-> QUARTER, fee_quote_percent |-> QUARTER]

\* price(s) = s + 1 on a quote range of 4: 12 meme tokens in all
CurveConfig ==
    [alpha_abs |-> 100, beta |-> 10, gamma_s |-> 4, gamma_m |-> 12,
     decimals |-> [alpha |-> 1, beta |-> 1, quote |-> DECIMALS_S]]

\* a flatter curve, on which a sale of a few tokens returns several quote tokens
FlatConfig ==
    [alpha_abs |-> 20, beta |-> 5, gamma_s |-> 8, gamma_m |-> 12,
     decimals |-> [alpha |-> 1, beta |-> 1, quote |-> DECIMALS_S]]

\* a slope that overflows both delta_m strategies on any window
SteepConfig == [CurveConfig EXCEPT !.alpha_abs = U128_MAX]

\* the pools the behaviours start from: new pools (all meme tokens in the
\* reserve, no quote tokens) and pools in mid-life
StartPools ==
    { [config |-> CurveConfig, fees |-> ProgramFees, meme |-> 12, quote |-> 0, points |-> 1],
      [config |-> CurveConfig, fees |-> QuarterFees, meme |-> 12, quote |-> 0, points |-> 1],
      [config |-> CurveConfig, fees |-> ProgramFees, meme |-> 3, quote |-> 1, points |-> 1],
      [config |-> CurveConfig, fees |-> QuarterFees, meme |-> 11, quote |-> 3, points |-> 1],
      [config |-> CurveConfig, fees |-> QuarterFees, meme |-> 4, quote |-> 3, points |-> 1],
      [config |-> FlatConfig, fees |-> ProgramFees, meme |-> 3, quote |-> 5, points |-> 1],
      [config |-> SteepConfig, fees |-> ProgramFees, meme |-> 12, quote |-> 0, points |-> 1] }

NoFeeCall == [x |-> 0, percent |-> 0, done |-> FALSE, result |-> None]
NoQuoteCall == [coin_in |-> 0, min_out |-> 0, buy_meme |-> FALSE, results |-> <<>>]
NoMathCall == [fn |-> "none", done |-> FALSE]
NoStakingAccs ==
    [staking |-> [to_airdrop |-> 0], staking_meme_vault |-> 0,
     airdrop_token_vault |-> [init |-> FALSE, amount |-> 0]]
NoAirdropCall == [done |-> FALSE, result |-> "Ok", amount |-> 0, pre |-> NoStakingAccs]

Init ==
    /\ \E sp \in StartPools :
          /\ config = sp.config
          /\ fees = sp.fees
          /\ meme_reserve = sp.meme
          /\ quote_reserve = sp.quote
          /\ points_acc = sp.points
    /\ admin_fees_meme = 0
    /\ admin_fees_quote = 0
    /\ locked = FALSE
    /\ meme_vault = meme_reserve
    /\ quote_vault = quote_reserve
    /\ points_epoch = [points_per_sol_num |-> 1, points_per_sol_denom |-> 1]
    /\ overflow_checks \in BOOLEAN
    /\ last = [op |-> "init", coin_in |-> 0, min_out |-> 0,
               referrer |-> FALSE, result |-> "Ok", swap |-> NoSwap,
               solver |-> FALSE, points |-> 0, pre |-> Accounts]
    /\ fee_call = NoFeeCall
    /\ quote_call = NoQuoteCall
    /\ math_call = NoMathCall
    /\ staking_accs = NoStakingAccs /\ airdrop_call = NoAirdropCall

\* the instruction is processed: the accounts are replaced by the ones it
\* leaves, and the instruction is remembered with the accounts it found
Commit(op, coin_in, min_out, referrer, o) ==
    /\ o.post.admin_fees_meme <= MaxAdminFees
    /\ o.post.admin_fees_quote <= MaxAdminFees
    /\ meme_reserve' = o.post.meme_reserve
    /\ quote_reserve' = o.post.quote_reserve
    /\ admin_fees_meme' = o.post.admin_fees_meme
    /\ admin_fees_quote' = o.post.admin_fees_quote
    /\ locked' = o.post.locked
    /\ meme_vault' = o.post.meme_vault
    /\ quote_vault' = o.post.quote_vault
    /\ points_acc' = o.post.points_acc
    /\ last' = [op |-> op, coin_in |-> coin_in, min_out |-> min_out,
                referrer |-> referrer, result |-> o.result,
                swap |-> o.swap, solver |-> o.solver, points |-> o.points,
                pre |-> Accounts]
    /\ UNCHANGED <<fees, config, points_epoch, overflow_checks, fee_call,
                   quote_call, math_call, staking_accs, airdrop_call>>

SwapY ==
    \E coin_in_amount \in AmountsIn, coin_x_min_value \in MinOuts, c \in Callers :
        \E o \in {swap_y_handle(Accounts, points_epoch, coin_in_amount,
                                coin_x_min_value, c.balance, c.referrer)} :
            Commit("swap_y", coin_in_amount, coin_x_min_value, c.referrer, o)

SwapX ==
    \E coin_in_amount \in AmountsIn, coin_y_min_value \in MinOuts,
       user_meme \in {c.balance : c \in Callers} :
        \E o \in {swap_x_handle(Accounts, coin_in_amount, coin_y_min_value,
                                user_meme)} :
            Commit("swap_x", coin_in_amount, coin_y_min_value, FALSE, o)

Next == SwapY \/ SwapX

Spec == Init /\ [][Next]_vars

(***************************************************************************)
(* The fee function on its own: get_fee_amount applied to every amount and *)
(* to rates below, at and above FEE_PRECISION.                             *)
(***************************************************************************)
Percents == {0, 1, FEE, QUARTER, FEE_PRECISION - FEE, FEE_PRECISION, 2 * FEE_PRECISION}

FeeInit ==
    /\ \E sp \in StartPools :
          /\ sp.fees = ProgramFees /\ sp.config = CurveConfig /\ sp.quote = 0
          /\ config = sp.config
          /\ fees = sp.fees
          /\ meme_reserve = sp.meme
          /\ quote_reserve = sp.quote
          /\ points_acc = sp.points
    /\ admin_fees_meme = 0
    /\ admin_fees_quote = 0
    /\ locked = FALSE
    /\ meme_vault = meme_reserve
    /\ quote_vault = quote_reserve
    /\ points_epoch = [points_per_sol_num |-> 1, points_per_sol_denom |-> 1]
    /\ overflow_checks \in BOOLEAN
    /\ last = [op |-> "init", coin_in |-> 0, min_out |-> 0,
               referrer |-> FALSE, result |-> "Ok", swap |-> NoSwap,
               solver |-> FALSE, points |-> 0, pre |-> Accounts]
    /\ \E x \in 0..U64_MAX, percent \in Percents :
          fee_call = [x |-> x, percent |-> percent, done |-> FALSE, result |-> None]
    /\ quote_call = NoQuoteCall
    /\ math_call = NoMathCall
    /\ staking_accs = NoStakingAccs /\ airdrop_call = NoAirdropCall

GetFeeAmount ==
    /\ ~fee_call.done
    /\ fee_call' = [fee_call EXCEPT !.done = TRUE,
                                    !.result = get_fee_amount(fee_call.x, fee_call.percent)]
    /\ UNCHANGED <<meme_reserve, quote_reserve, admin_fees_meme, admin_fees_quote,
                   locked, fees, config, meme_vault, quote_vault, points_acc,
                   points_epoch, overflow_checks, last, quote_call, math_call,
                   staking_accs, airdrop_call>>

FeeNext == GetFeeAmount

FeeSpec == FeeInit /\ [][FeeNext]_vars

(***************************************************************************)
(* The quote on its own: swap_amounts called, once and again, on a pool    *)
(* that no instruction touches in between.                                 *)
(***************************************************************************)
\* the accounts of a pool as the behaviours start it
StartFrom(sp) ==
    /\ config = sp.config
    /\ fees = sp.fees
    /\ meme_reserve = sp.meme
    /\ quote_reserve = sp.quote
    /\ points_acc = sp.points
    /\ admin_fees_meme = 0
    /\ admin_fees_quote = 0
    /\ meme_vault = meme_reserve
    /\ quote_vault = quote_reserve
    /\ points_epoch = [points_per_sol_num |-> 1, points_per_sol_denom |-> 1]
    /\ overflow_checks \in BOOLEAN
    /\ fee_call = NoFeeCall

QuoteInit ==
    /\ \E sp \in StartPools : StartFrom(sp)
    /\ locked \in BOOLEAN
    /\ last = [op |-> "init", coin_in |-> 0, min_out |-> 0,
               referrer |-> FALSE, result |-> "Ok", swap |-> NoSwap,
               solver |-> FALSE, points |-> 0, pre |-> Accounts]
    /\ \E coin_in_amount \in AmountsIn, coin_out_min_value \in MinOuts,
          buy_meme \in BOOLEAN :
          quote_call = [coin_in |-> coin_in_amount, min_out |-> coin_out_min_value,
                        buy_meme |-> buy_meme, results |-> <<>>]
    /\ math_call = NoMathCall
    /\ staking_accs = NoStakingAccs /\ airdrop_call = NoAirdropCall

\* (variant of borrow_shared: the callee books a fee into the pool it is handed)
borrow_and_book(a) ==
    [a EXCEPT !.admin_fees_quote = (a.admin_fees_quote + 1) % (U64_MAX + 1)]

\* &self: swap_amounts and the two quotes receive the pool by shared
\* reference, and every field of BoundPool is plain data; the pool after the
\* call is the pool before it
borrow_shared(a) == a

\* pool.swap_amounts(coin_in_amount, coin_out_min_value, buy_meme)
QuoteSwap ==
    /\ Len(quote_call.results) < 2
    /\ \E q \in {swap_amounts(Accounts, quote_call.coin_in, quote_call.min_out,
                              quote_call.buy_meme)},
          post \in {borrow_shared(Accounts)} :
          /\ quote_call' = [quote_call EXCEPT !.results = Append(@, q)]
          /\ meme_reserve' = post.meme_reserve
          /\ quote_reserve' = post.quote_reserve
          /\ admin_fees_meme' = post.admin_fees_meme
          /\ admin_fees_quote' = post.admin_fees_quote
          /\ locked' = post.locked
          /\ fees' = post.fees
          /\ config' = post.config
          /\ meme_vault' = post.meme_vault
          /\ quote_vault' = post.quote_vault
          /\ points_acc' = post.points_acc
    /\ UNCHANGED <<points_epoch, overflow_checks, last, fee_call, math_call,
                   staking_accs, airdrop_call>>

QuoteNext == QuoteSwap

QuoteSpec == QuoteInit /\ [][QuoteNext]_vars

(***************************************************************************)
(* Buying and selling back: the swap instructions on pools of the program's *)
(* rates and on pools that charge no fee.                                  *)
(***************************************************************************)
ZeroFees == [fee_meme_percent |-> 0, fee_quote_percent |-> 0]

RoundTripPools ==
    { [config |-> FlatConfig, fees |-> ProgramFees, meme |-> 3, quote |-> 5, points |-> 1],
      [config |-> FlatConfig, fees |-> ZeroFees, meme |-> 3, quote |-> 5, points |-> 1] }

RoundTripInit ==
    /\ \E sp \in RoundTripPools : StartFrom(sp)
    /\ locked = FALSE
    /\ last = [op |-> "init", coin_in |-> 0, min_out |-> 0,
               referrer |-> FALSE, result |-> "Ok", swap |-> NoSwap,
               solver |-> FALSE, points |-> 0, pre |-> Accounts]
    /\ quote_call = NoQuoteCall
    /\ math_call = NoMathCall
    /\ staking_accs = NoStakingAccs /\ airdrop_call = NoAirdropCall

RoundTripSpec == RoundTripInit /\ [][Next]_vars

(***************************************************************************)
(* The curve functions on their own: compute_delta_m, compute_a_positive,  *)
(* check_slope and compute_alpha_abs applied to arguments over the whole   *)
(* word.                                                                   *)
(***************************************************************************)
\* an intercept of 10 meme units per quote unit and next to no slope: the
\* direct formula returns values above u64::MAX without overflowing u128
RichConfig ==
    [alpha_abs |-> 1, beta |-> 100, gamma_s |-> 12, gamma_m |-> 120,
     decimals |-> [alpha |-> 1, beta |-> 1, quote |-> DECIMALS_S]]

SolverConfigs == {CurveConfig, FlatConfig, SteepConfig, RichConfig}
SolverStarts == {0, 1, 3, 12, 100, U64_MAX}

DeltaMCalls ==
    { [fn |-> "compute_delta_m", config |-> c, s_a |-> a, s_b |-> b,
       done |-> FALSE, result |-> [st |-> "Ok", v |-> 0],
       inverted |-> FALSE, delta_s |-> [st |-> "Ok", v |-> 0]] :
          c \in SolverConfigs, a \in SolverStarts, b \in 0..U64_MAX }

APositiveCalls ==
    { [fn |-> "compute_a_positive", u |-> u, alpha_decimals |-> ad, w |-> w, v |-> v,
       done |-> FALSE, result |-> None] :
          u \in {0, 1, 1000, 100000000, U256_MAX}, ad \in {1, 3, 100},
          w \in {0, 8, U256_MAX}, v \in {1, 10, 100000} }

SlopeCalls ==
    { [fn |-> "compute_alpha_abs", gamma_s |-> gs, gamma_s_denom |-> gd,
       gamma_m |-> gm, omega_m |-> om, price_factor_num |-> pn,
       price_factor_denom |-> pd, checked |-> FALSE, slope |-> Abort,
       done |-> FALSE, result |-> Abort] :
          gs \in {1, 2, 4}, gd \in {1, 10}, gm \in {0, 5, 12, 100, U128_MAX},
          om \in {0, 12, 24, 100, U128_MAX}, pn \in {0, 1, 2, U64_MAX},
          pd \in {0, 1, 2, 10} }

\* the parameters of a curve handed to both copies of check_intercept
InterceptCalls ==
    { [fn |-> "check_intercept", gamma_m |-> gm, omega_m |-> om,
       price_factor_num |-> pn, price_factor_denom |-> pd,
       done |-> FALSE, positive |-> Abort, negative |-> Abort] :
          gm \in {0, 5, 6, 12, 100, (U128_MAX \div 2) + 1, U128_MAX},
          om \in {0, 12, 24, 100, U128_MAX}, pn \in {0, 1, 2, U64_MAX},
          pd \in {0, 1, 2, 10} }

MathInit ==
    /\ \E sp \in StartPools :
          /\ sp.fees = ProgramFees /\ sp.config = CurveConfig /\ sp.quote = 0
          /\ StartFrom(sp)
    /\ locked = FALSE
    /\ last = [op |-> "init", coin_in |-> 0, min_out |-> 0,
               referrer |-> FALSE, result |-> "Ok", swap |-> NoSwap,
               solver |-> FALSE, points |-> 0, pre |-> Accounts]
    /\ quote_call = NoQuoteCall
    /\ math_call \in DeltaMCalls \cup APositiveCalls \cup SlopeCalls \cup InterceptCalls
    /\ staking_accs = NoStakingAccs /\ airdrop_call = NoAirdropCall

\* what a call of a curve function leaves alone
MathFrame ==
    UNCHANGED <<meme_reserve, quote_reserve, admin_fees_meme, admin_fees_quote,
                locked, fees, config, meme_vault, quote_vault, points_acc,
                points_epoch, overflow_checks, last, fee_call, quote_call,
                staking_accs, airdrop_call>>

ComputeDeltaM ==
    /\ math_call.fn = "compute_delta_m" /\ ~math_call.done
    /\ math_call' = [math_call EXCEPT
           !.done = TRUE,
           !.result = compute_delta_m(math_call.config, math_call.s_a, math_call.s_b)]
    /\ MathFrame

\* compute_delta_s at the upper end of the window, on the value
\* compute_delta_m returned for it
ComputeDeltaS ==
    /\ math_call.fn = "compute_delta_m" /\ math_call.done /\ ~math_call.inverted
    /\ math_call.result.st = "Ok"
    /\ math_call' = [math_call EXCEPT
           !.inverted = TRUE,
           !.delta_s = compute_delta_s(math_call.config, math_call.s_b,
                                       math_call.result.v)]
    /\ MathFrame

ComputeAPositive ==
    /\ math_call.fn = "compute_a_positive" /\ ~math_call.done
    /\ math_call' = [math_call EXCEPT
           !.done = TRUE,
           !.result = compute_a_positive(math_call.u, math_call.alpha_decimals,
                                         math_call.w, math_call.v, 1)]
    /\ MathFrame

CheckSlope ==
    /\ math_call.fn = "compute_alpha_abs" /\ ~math_call.checked
    /\ math_call' = [math_call EXCEPT
           !.checked = TRUE,
           !.slope = check_slope(math_call.gamma_m, math_call.omega_m,
                                 math_call.price_factor_num,
                                 math_call.price_factor_denom)]
    /\ MathFrame

ComputeAlphaAbs ==
    /\ math_call.fn = "compute_alpha_abs" /\ ~math_call.done
    /\ math_call' = [math_call EXCEPT
           !.done = TRUE,
           !.result = compute_alpha_abs(math_call.gamma_s, math_call.gamma_s_denom,
                                        math_call.gamma_m, math_call.omega_m,
                                        math_call.price_factor_num,
                                        math_call.price_factor_denom)]
    /\ MathFrame

CheckIntercept ==
    /\ math_call.fn = "check_intercept" /\ ~math_call.done
    /\ math_call' = [math_call EXCEPT
           !.done = TRUE,
           !.positive = check_intercept(math_call.gamma_m, math_call.omega_m,
                                        math_call.price_factor_num,
                                        math_call.price_factor_denom),
           !.negative = check_intercept_negative(math_call.gamma_m, math_call.omega_m,
                                                 math_call.price_factor_num,
                                                 math_call.price_factor_denom)]
    /\ MathFrame

MathNext ==
    \/ ComputeDeltaM
    \/ ComputeDeltaS
    \/ ComputeAPositive
    \/ CheckSlope
    \/ ComputeAlphaAbs
    \/ CheckIntercept

MathSpec == MathInit /\ [][MathNext]_vars

(***************************************************************************)
(* endpoints/send_airdrop_funds.rs: the tokens a staking pool has set      *)
(* aside for the airdrop are sent to the airdrop vault, which the          *)
(* instruction creates.                                                    *)
(***************************************************************************)
\* handle: the field is written, then read as the amount of the transfer
send_airdrop_funds_handle(a) ==
    Bind([a EXCEPT !.staking.to_airdrop = 0], LAMBDA accs :
    Bind(accs.staking.to_airdrop, LAMBDA amount :
        IF ~transfer_ok(accs.staking_meme_vault, accs.airdrop_token_vault.amount, amount)
        THEN [result |-> "Panic", amount |-> 0, post |-> a]
        ELSE [result |-> "Ok", amount |-> amount,
              post |-> [accs EXCEPT !.staking_meme_vault = @ - amount,
                                    !.airdrop_token_vault.amount = @ + amount]]))

\* the instruction: the accounts of SendAirdropFunds are validated
\* (airdrop_token_vault is created, staking.to_airdrop != 0), then handle
\* runs; a failed instruction leaves the accounts as they were
send_airdrop_funds(a) ==
    IF a.airdrop_token_vault.init
    THEN [result |-> "AccountAlreadyInUse", amount |-> 0, post |-> a]
    ELSE IF a.staking.to_airdrop = 0
    THEN [result |-> "ConstraintRaw", amount |-> 0, post |-> a]
    ELSE Bind(send_airdrop_funds_handle(
                  [a EXCEPT !.airdrop_token_vault = [init |-> TRUE, amount |-> 0]]),
              LAMBDA o : IF o.result = "Ok" THEN o ELSE [o EXCEPT !.post = a])

\* staking pools with and without tokens to airdrop, a staking vault that
\* holds them or not, and the airdrop vault not yet created or already there
StakingAccs ==
    { [staking |-> [to_airdrop |-> n],
       staking_meme_vault |-> IF held = "all" THEN n ELSE IF held = "none" THEN 0 ELSE U64_MAX,
       airdrop_token_vault |-> t] :
          n \in 0..U64_MAX, held \in {"none", "all", "more"},
          t \in { [init |-> FALSE, amount |-> 0], [init |-> TRUE, amount |-> 0],
                  [init |-> TRUE, amount |-> 5] } }

AirdropInit ==
    /\ \E sp \in StartPools :
          /\ sp.fees = ProgramFees /\ sp.config = CurveConfig /\ sp.quote = 0
          /\ StartFrom(sp)
    /\ locked = FALSE
    /\ last = [op |-> "init", coin_in |-> 0, min_out |-> 0,
               referrer |-> FALSE, result |-> "Ok", swap |-> NoSwap,
               solver |-> FALSE, points |-> 0, pre |-> Accounts]
    /\ quote_call = NoQuoteCall
    /\ math_call = NoMathCall
    /\ staking_accs \in StakingAccs
    /\ airdrop_call = NoAirdropCall

SendAirdropFunds ==
    /\ Bind(send_airdrop_funds(staking_accs), LAMBDA o :
          /\ staking_accs' = o.post
          /\ airdrop_call' = [done |-> TRUE, result |-> o.result,
                              amount |-> o.amount, pre |-> staking_accs])
    /\ UNCHANGED <<meme_reserve, quote_reserve, admin_fees_meme, admin_fees_quote,
                   locked, fees, config, meme_vault, quote_vault, points_acc,
                   points_epoch, overflow_checks, last, fee_call, quote_call,
                   math_call>>

AirdropNext == SendAirdropFunds

AirdropSpec == AirdropInit /\ [][AirdropNext]_vars

(***************************************************************************)
(* Buys under several points rates and points balances.                    *)
(***************************************************************************)
\* points per quote token: one, a half, three, a rate whose product leaves
\* u64, and rates without a denominator
PointsEpochs ==
    { [points_per_sol_num |-> n, points_per_sol_denom |-> d] :
          n \in {1, 3, U64_MAX}, d \in {0, 1, 2} }

PointsInit ==
    /\ \E sp \in StartPools :
          /\ sp.fees = ProgramFees /\ sp.config = CurveConfig /\ sp.quote = 0
          /\ config = sp.config
          /\ fees = sp.fees
          /\ meme_reserve = sp.meme
          /\ quote_reserve = sp.quote
    /\ points_acc \in {0, 2, U64_MAX}
    /\ points_epoch \in PointsEpochs
    /\ admin_fees_meme = 0
    /\ admin_fees_quote = 0
    /\ locked = FALSE
    /\ meme_vault = meme_reserve
    /\ quote_vault = quote_reserve
    /\ overflow_checks \in BOOLEAN
    /\ last = [op |-> "init", coin_in |-> 0, min_out |-> 0,
               referrer |-> FALSE, result |-> "Ok", swap |-> NoSwap,
               solver |-> FALSE, points |-> 0, pre |-> Accounts]
    /\ fee_call = NoFeeCall
    /\ quote_call = NoQuoteCall
    /\ math_call = NoMathCall
    /\ staking_accs = NoStakingAccs /\ airdrop_call = NoAirdropCall

\* a buy sent by someone with funds who passes a referrer account or not
SwapYOfFunded ==
    \E coin_in_amount \in AmountsIn, coin_x_min_value \in MinOuts, referrer \in BOOLEAN :
        \E o \in {swap_y_handle(Accounts, points_epoch, coin_in_amount,
                                coin_x_min_value, U64_MAX, referrer)} :
            Commit("swap_y", coin_in_amount, coin_x_min_value, referrer, o)

PointsNext == SwapYOfFunded

PointsSpec == PointsInit /\ [][PointsNext]_vars

(***************************************************************************)
(* Properties.  A state is the outcome of the instruction `last` records,  *)
(* applied to the accounts last.pre.                                       *)
(***************************************************************************)
IsSwap == last.op \in {"swap_y", "swap_x"}
IsBuy == last.op = "swap_y"
IsSell == last.op = "swap_x"
Succeeded == IsSwap /\ last.result = "Ok"

\* the instruction got as far as asking the pool for a quote
ReachedQuote ==
    IsSwap /\ last.result \notin {"NoZeroTokens", "InsufficientBalance", "PoolIsLocked"}

\* the part of the pool a swap may touch
Ledger(a) ==
    <<a.meme_reserve, a.quote_reserve, a.admin_fees_meme, a.admin_fees_quote, a.locked>>

\* the quote of the last instruction when no minimum is asked for
FreeQuote == swap_amounts(last.pre, last.coin_in, 0, IsBuy)

\* C1: in either direction, a quote whose net output is strictly below the
\* caller's minimum fails with SlippageExceeded and leaves the reserves, the
\* admin fee balances and the locked flag as they were; a net output equal to
\* (or above) the minimum is not refused for slippage.
C1_Slippage ==
    (ReachedQuote /\ FreeQuote.st = "Ok") =>
        IF FreeQuote.swap.amount_out < last.min_out
        THEN last.result = "SlippageExceeded" /\ Ledger(Accounts) = Ledger(last.pre)
        ELSE last.result # "SlippageExceeded"

\* a sale refused because its net output is one below the minimum
C1_Witness ==
    /\ IsSell /\ last.result = "SlippageExceeded"
    /\ FreeQuote.st = "Ok"
    /\ FreeQuote.swap.amount_out + 1 = last.min_out

\* the net input of the last instruction and the capacity left on its input
\* side, when neither subtraction underflows
InputFee ==
    IF IsBuy THEN get_fee_quote_amount(last.pre.fees, last.coin_in)
    ELSE sell_fee(get_fee_meme_amount(last.pre.fees, last.coin_in))
Capacity ==
    IF IsBuy THEN last.pre.config.gamma_s - last.pre.quote_reserve
    ELSE last.pre.config.gamma_m - last.pre.meme_reserve
OppositeReserve ==
    IF IsBuy THEN last.pre.meme_reserve ELSE last.pre.quote_reserve
Saturating ==
    /\ ReachedQuote
    /\ InputFee.st = "Some" /\ InputFee.v <= last.coin_in /\ Capacity >= 0
    /\ last.coin_in - InputFee.v >= Capacity

\* C2: when the net input is at least the remaining input-side capacity the
\* solver is not invoked, the quote does not fail with MathOverflow, and the
\* gross output of the quote (amount_out + admin_fee_out) is the entire
\* opposite reserve.
C2_Saturating ==
    Saturating =>
        /\ ~last.solver
        /\ last.result # "MathOverflow"
        /\ last.result = "Ok" =>
               last.swap.amount_out + last.swap.admin_fee_out = OppositeReserve

\* a saturating buy that succeeds on the curve whose solver overflows
C2_Witness ==
    /\ Saturating /\ IsBuy /\ last.result = "Ok"
    /\ last.pre.config = SteepConfig
    /\ last.swap.amount_out + last.swap.admin_fee_out = last.pre.meme_reserve
    /\ last.pre.meme_reserve > 0

\* C3: a completed swap_y never leaves meme_reserve = 0 with locked = FALSE.
C3_LockOnDepletion ==
    (IsBuy /\ last.result = "Ok" /\ meme_reserve = 0) => locked

\* a buy that takes the last meme tokens of an unlocked pool and locks it
C3_Witness ==
    /\ IsBuy /\ last.result = "Ok"
    /\ ~last.pre.locked /\ last.pre.meme_reserve > 0
    /\ meme_reserve = 0 /\ locked

C7_LockedMonotonic ==
    /\ (IsSwap /\ last.pre.locked) => locked
    /\ \A tokens \in 0..U64_MAX : lock_if_depleted(TRUE, tokens)

\* a sale sent to a locked pool, which stays locked
C7_Witness == IsSell /\ last.pre.locked /\ locked

\* ceil(x * percent / FEE_PRECISION) for a rate that is a whole number of
\* percents, computed on the reduced fraction
PercentOf(percent) == percent \div FEE
CeilPercent(x, percent) == (x * PercentOf(percent) + 99) \div 100

WholePercents(f) ==
    /\ f.fee_meme_percent % FEE = 0
    /\ f.fee_quote_percent % FEE = 0

\* the reserves the instruction found were within the capacities of the curve
PreWithinCapacity ==
    /\ last.pre.meme_reserve <= last.pre.config.gamma_m
    /\ last.pre.quote_reserve <= last.pre.config.gamma_s

\* the buy quote clamps: the net input exceeds the capacity left
Clamped == last.coin_in - last.swap.admin_fee_in > Capacity

\* the general part of C8: the fee of the input leg is taken on the whole
\* input, and the net input is cut to the capacity left
C8_General ==
    /\ last.swap.admin_fee_in = CeilPercent(last.coin_in, last.pre.fees.fee_quote_percent)
    /\ last.swap.amount_in =
           Min(last.coin_in - last.swap.admin_fee_in,
               last.pre.config.gamma_s - last.pre.quote_reserve)

GrossOut == last.swap.amount_out + last.swap.admin_fee_out

\* C9: a successful buy charges each leg once (admin_fee_in = fee(input) at
\* the quote rate, admin_fee_out = fee(gross output) at the meme rate); a
\* successful sale charges each leg twice (admin_fee_in = 2 * fee(input) at
\* the meme rate, admin_fee_out = 2 * fee(gross output) at the quote rate).
C9_FeeAsymmetry ==
    (Succeeded /\ WholePercents(last.pre.fees)) =>
        LET f == last.pre.fees
            sw == last.swap
        IN IF IsBuy
           THEN /\ sw.admin_fee_in = CeilPercent(last.coin_in, f.fee_quote_percent)
                /\ sw.admin_fee_out = CeilPercent(GrossOut, f.fee_meme_percent)
           ELSE /\ sw.admin_fee_in = 2 * CeilPercent(last.coin_in, f.fee_meme_percent)
                /\ sw.admin_fee_out = 2 * CeilPercent(GrossOut, f.fee_quote_percent)

\* a sale that pays a fee on both legs and still returns quote tokens
C9_Witness ==
    /\ IsSell /\ last.result = "Ok"
    /\ last.swap.admin_fee_in > 0 /\ last.swap.admin_fee_in <= last.coin_in
    /\ last.swap.admin_fee_out > 0 /\ last.swap.amount_out > 0

RECURSIVE GCD(_, _)
GCD(a, b) == IF b = 0 THEN a ELSE GCD(b, a % b)

\* ceil(x * percent / FEE_PRECISION), computed on the reduced fraction
CeilFee(x, percent) ==
    LET g == GCD(FEE_PRECISION, percent)
        n == percent \div g
        d == FEE_PRECISION \div g
    IN (x * n) \div d + (IF (x * n) % d = 0 THEN 0 ELSE 1)

C11_FeeBounded ==
    (fee_call.done /\ fee_call.percent <= FEE_PRECISION) =>
        /\ fee_call.result.st = "Some"
        /\ fee_call.result.v <= fee_call.x
        /\ \A y \in 0..fee_call.x :
              /\ get_fee_amount(y, fee_call.percent).st = "Some"
              /\ get_fee_amount(y, fee_call.percent).v <= fee_call.result.v
        /\ (fee_call.percent = FEE /\ fee_call.x >= 2) =>
              fee_call.result.v < fee_call.x

\* the fee of 2 units at 1%: one unit, less than the amount
C11_Witness ==
    /\ fee_call.done /\ fee_call.percent = FEE /\ fee_call.x = 2
    /\ fee_call.result = Some(1)

\* the gross output the quote of the last instruction computes, before the
\* fee of the output leg is taken from it
SolvedOut ==
    IF last.coin_in - InputFee.v >= Capacity
    THEN [st |-> "Ok", v |-> OppositeReserve]
    ELSE IF IsBuy
    THEN compute_delta_m(last.pre.config, last.pre.quote_reserve,
                         last.pre.quote_reserve + (last.coin_in - InputFee.v))
    ELSE compute_delta_s(last.pre.config, last.pre.quote_reserve,
                         last.coin_in - InputFee.v)

\* the fee the quote takes from that gross output
OutputFee ==
    IF IsBuy THEN get_fee_meme_amount(last.pre.fees, SolvedOut.v)
    ELSE sell_fee(get_fee_quote_amount(last.pre.fees, SolvedOut.v))

RatesWithinPrecision ==
    /\ last.pre.fees.fee_meme_percent <= FEE_PRECISION
    /\ last.pre.fees.fee_quote_percent <= FEE_PRECISION

\* C12 as stated: in both directions and at every fee rate <= FEE_PRECISION
\* no subtraction of a quote underflows: the admin fee of the input leg is
\* at most the input, and the admin fee of the output leg is at most the
\* gross output.
C12_NoUnderflow ==
    (ReachedQuote /\ PreWithinCapacity /\ RatesWithinPrecision) =>
        /\ InputFee.st = "Some" /\ InputFee.v <= last.coin_in
        /\ SolvedOut.st = "Ok" =>
              (OutputFee.st = "Some" /\ OutputFee.v <= SolvedOut.v)

SellBack == sell_meme_swap_amounts(Accounts, last.swap.amount_out, 0)

DeltaMCalled ==
    /\ math_call.fn = "compute_delta_m" /\ math_call.done
    /\ math_call.s_a <= math_call.s_b

\* C15 as stated: for a fixed configuration and a fixed s_a, a successful
\* compute_delta_m(s_a, s_b) is at least every successful compute_delta_m(s_a, s)
\* with s_a <= s <= s_b, and compute_delta_m(s_a, s_a) = 0.
C15_NonDecreasing ==
    DeltaMCalled =>
        /\ math_call.s_a = math_call.s_b => math_call.result = [st |-> "Ok", v |-> 0]
        /\ math_call.result.st = "Ok" =>
              \A s \in math_call.s_a..math_call.s_b :
                  LET r == compute_delta_m(math_call.config, math_call.s_a, s)
                  IN r.st = "Ok" => r.v <= math_call.result.v

\* C16 as stated: for a fixed increment d > 0, compute_delta_m(s, s + d)
\* strictly increases with the starting level s: a successful call from s_a
\* returns more than every successful call with the same increment from a
\* lower level.
C16_StrictlyIncreasing ==
    (DeltaMCalled /\ math_call.s_a < math_call.s_b /\ math_call.result.st = "Ok") =>
        \A s \in 0..(math_call.s_a - 1) :
            LET r == compute_delta_m(math_call.config, s,
                                     s + (math_call.s_b - math_call.s_a))
            IN r.st = "Ok" => r.v < math_call.result.v

\* the second formula of compute_delta_m with every intermediate 256 bits wide
DeltaM2Wide(p, s_a, s_b) ==
    LET left == opt_mul(opt_mul(opt_mul(checked_mul(p.beta, 2, U256_MAX),
                                        DECIMALS_S, U256_MAX),
                                p.decimals.alpha, U256_MAX),
                        s_b - s_a, U256_MAX)
        right == opt_mul(checked_mul(p.alpha_abs, p.decimals.beta, U256_MAX),
                         s_b * s_b - s_a * s_a, U256_MAX)
        denom == opt_mul(opt_mul(checked_mul(2, p.decimals.alpha, U256_MAX),
                                 p.decimals.beta, U256_MAX),
                         DECIMALS_S * DECIMALS_S, U256_MAX)
        sum == opt_add(left, right, U256_MAX)
    IN IF sum.st # "Some" \/ denom.st # "Some" THEN None
       ELSE checked_div(sum.v, denom.v)

\* the first formula of the last call of compute_delta_m
DirectFormula ==
    delta_m1_positive_strategy(math_call.config.alpha_abs, math_call.config.beta,
                               math_call.config.decimals.alpha,
                               math_call.config.decimals.beta,
                               math_call.s_a, math_call.s_b)

\* C17 as stated: compute_delta_m returns the value of the direct formula
\* whenever that succeeds; when the direct formula overflows, the result is
\* that of the second formula computed with 256-bit intermediates, and
\* MathOverflow is returned only when that fails too; with s_b >= s_a the
\* call never aborts.
C17_WideFallback ==
    DeltaMCalled =>
        /\ math_call.result.st # "Panic"
        /\ DirectFormula.st = "Some" =>
              math_call.result = [st |-> "Ok", v |-> DirectFormula.v]
        /\ DirectFormula.st = "None" =>
              LET wide == DeltaM2Wide(math_call.config, math_call.s_a, math_call.s_b)
              IN IF wide.st = "Some" /\ wide.v <= U64_MAX
                 THEN math_call.result = [st |-> "Ok", v |-> wide.v]
                 ELSE math_call.result.st = "MathOverflow"

\* C18 as stated: every call of compute_a_positive ends with a value or
\* with the overflow outcome None (MathOverflow to the caller).
C18_ValueOrMathOverflow ==
    (math_call.fn = "compute_a_positive" /\ math_call.done) =>
        math_call.result.st \in {"Some", "None"}

\* omega_m * price_factor_num / price_factor_denom of the last call as the
\* exact integer quotient, for a denominator that is not 0
Factor ==
    (math_call.omega_m * math_call.price_factor_num) \div math_call.price_factor_denom

\* C20 as stated: check_slope fails with BondingCurveMustBePositivelySloped
\* unless omega_m * price_factor_num / price_factor_denom > gamma_m, and
\* compute_alpha_abs returns no value for parameters check_slope does not
\* accept: it ends as check_slope does.
C20_SlopeChecked ==
    (math_call.fn = "compute_alpha_abs" /\ math_call.checked) =>
        /\ (math_call.price_factor_denom # 0 /\ Factor <= math_call.gamma_m) =>
               math_call.slope.st = "BondingCurveMustBePositivelySloped"
        /\ (math_call.done /\ math_call.slope.st # "Ok") =>
               math_call.result = math_call.slope

InterceptCalled == math_call.fn = "check_intercept" /\ math_call.done

\* C21 as stated: with omp the floor of omega_m * price_factor_num /
\* price_factor_denom, the positive-intercept check_intercept accepts exactly
\* when 2 * gamma_m > omp and the negative-intercept one exactly when
\* 2 * gamma_m < omp; no parameter tuple is accepted by both, and one with
\* 2 * gamma_m = omp is rejected by both.
C21_InterceptsExclusive ==
    (InterceptCalled /\ math_call.price_factor_denom # 0) =>
        /\ math_call.positive.st = "Ok" <=> 2 * math_call.gamma_m > Factor
        /\ math_call.negative.st = "Ok" <=> 2 * math_call.gamma_m < Factor
        /\ ~(math_call.positive.st = "Ok" /\ math_call.negative.st = "Ok")

\* C22 as stated: for a fixed increment, compute_delta_m(s, s + d) from a
\* higher starting reserve is strictly smaller than from a lower one: a
\* successful call from s_a returns less than every successful call with the
\* same increment from a lower level.
C22_FewerTokensAtHigherSupply ==
    (DeltaMCalled /\ math_call.s_a < math_call.s_b /\ math_call.result.st = "Ok") =>
        \A s \in 0..(math_call.s_a - 1) :
            LET r == compute_delta_m(math_call.config, s,
                                     s + (math_call.s_b - math_call.s_a))
            IN r.st = "Ok" => math_call.result.v < r.v

\* compute_delta_m of a window, then compute_delta_s on its result
DeltaSCalled == DeltaMCalled /\ math_call.inverted

\* C23 as stated: for s_a <= s_b and dm = compute_delta_m(s_a, s_b),
\* compute_delta_s(s_b, dm) returns the width s_b - s_a of the window up to
\* the floor rounding of the two formulas: it is within one unit of the
\* width of some window ending at s_b for which compute_delta_m returns dm.
C23_DeltaSInverts ==
    (DeltaSCalled /\ math_call.delta_s.st = "Ok") =>
        \E width \in 0..math_call.s_b :
            /\ width - 1 <= math_call.delta_s.v
            /\ math_call.delta_s.v <= width + 1
            /\ compute_delta_m(math_call.config, math_call.s_b - width,
                               math_call.s_b) = math_call.result

\* C24 as stated: a successful send_airdrop_funds moves to the airdrop vault
\* the whole to_airdrop the staking pool held before the call, and leaves
\* to_airdrop = 0.
C24_FullAmountSent ==
    (airdrop_call.done /\ airdrop_call.result = "Ok") =>
        /\ airdrop_call.amount = airdrop_call.pre.staking.to_airdrop
        /\ staking_accs.airdrop_token_vault.amount = airdrop_call.pre.staking.to_airdrop
        /\ staking_accs.staking_meme_vault =
               airdrop_call.pre.staking_meme_vault - airdrop_call.pre.staking.to_airdrop
        /\ staking_accs.staking.to_airdrop = 0

\* floor((amount_in + admin_fee_in) * points_per_sol_num /
\* points_per_sol_denom) of the last buy
PointsDue ==
    ((last.swap.amount_in + last.swap.admin_fee_in) * points_epoch.points_per_sol_num)
        \div points_epoch.points_per_sol_denom

InCustody(a) ==
    /\ a.meme_vault = a.meme_reserve + a.admin_fees_meme
    /\ a.quote_vault = a.quote_reserve + a.admin_fees_quote

C27_LockedIffDepleted == locked <=> meme_reserve = 0

\* a pool locked by the buy that took its last meme tokens, and a swap sent
\* to it afterwards
C27_Witness ==
    /\ locked /\ meme_reserve = 0
    /\ IsSwap /\ last.pre.locked /\ last.result = "PoolIsLocked"

\* C28: a successful buy whose net input reaches the quote capacity left
\* ends with quote_reserve = gamma_s, meme_reserve = 0 and the pool locked,
\* whatever the meme fee rate; and in every state reached by swaps from a
\* pool below its quote capacity, quote_reserve = gamma_s implies locked.
C28_SaturatingBuyLocks ==
    /\ (IsBuy /\ Succeeded /\ Saturating) =>
           /\ quote_reserve = config.gamma_s
           /\ meme_reserve = 0
           /\ locked
    /\ quote_reserve = config.gamma_s => locked

\* a saturating buy at a meme fee of 25%: part of the reserve goes to the
\* admin fees, all of it leaves the reserve
C28_Witness ==
    /\ IsBuy /\ Succeeded /\ Saturating
    /\ fees = QuarterFees /\ last.swap.admin_fee_out > 0
    /\ last.pre.meme_reserve > 0 /\ ~last.pre.locked
    /\ quote_reserve = config.gamma_s /\ meme_reserve = 0 /\ locked

\* the reserve a quote of the pool pays from: meme tokens on a buy, quote
\* tokens on a sale
PayingReserve == IF quote_call.buy_meme THEN meme_reserve ELSE quote_reserve

\* C29 as stated: on a pool whose reserves are within the capacities of its
\* curve, every successful quote, in either direction, has amount_out +
\* admin_fee_out at most the reserve it is paid from.
C29_OutputWithinReserve ==
    (meme_reserve <= config.gamma_m /\ quote_reserve <= config.gamma_s) =>
        \A i \in 1..Len(quote_call.results) :
            quote_call.results[i].st = "Ok" =>
                quote_call.results[i].swap.amount_out
                    + quote_call.results[i].swap.admin_fee_out <= PayingReserve

\* the fee of the input leg on the whole amount asked for, and the capacity
\* left on the input side of the pool the quote is asked of
QuoteInputFee ==
    IF quote_call.buy_meme THEN get_fee_quote_amount(fees, quote_call.coin_in)
    ELSE sell_fee(get_fee_meme_amount(fees, quote_call.coin_in))
QuoteCapacity ==
    IF quote_call.buy_meme THEN config.gamma_s - quote_reserve
    ELSE config.gamma_m - meme_reserve

====
